---- MODULE Spec2Model ----
(***************************************************************************)
(* The incremental merge-and-dedupe update of the three data managers      *)
(* (scripts/crypto_data_manager.py, scripts/psx_data_manager.py,           *)
(* scripts/spx500_data_manager.py): load_stored_data, fetch_from_api,      *)
(* update_data, save_data and get_latest_price over one instrument's       *)
(* Parquet file.                                                           *)
(*                                                                         *)
(* A calendar date is a positive integer (its day number); NaT, pandas'    *)
(* missing timestamp, is 0.  A row is [date, close]; a DataFrame is a      *)
(* sequence of rows.                                                       *)
(***************************************************************************)
EXTENDS Integers, Sequences, FiniteSets, TLC

\* ---------------------------------------------------------------- bounds
MaxDate == 2
MaxBatch == 2
\* The longest volume string parse_volume is given.
MaxVolLen == 4
\* The merge scenario: stored dates 1..StoredLast, incoming dates
\* IncomingFirst..IncomingLast.
StoredLast == 5
IncomingFirst == 4
IncomingLast == 8

Closes == {100, 105}
Dates == 1 .. MaxDate

\* ---------------------------------------------------------------- values
NaT == 0
\* A vendor row with no date field, and one whose date does not parse.
NoField == -1
BadDate == -2
\* A key the result dict does not carry.
NoKey == -1

Instances == {"crypto", "psx", "spx"}
Invocations == {1, 2}

VARIABLES
    inst,          \* which data manager this is
    file,          \* the instrument's Parquet file on disk
    pc,            \* per invocation: "idle", "loaded" (after line 127), "done"
    force_refresh, \* per invocation: the --force flag
    stored_df,     \* per invocation: what load_stored_data returned
    before,        \* per invocation: the file when update_data began
    response,      \* per invocation: what the vendor answered this update
    save_outcome,  \* per invocation: how this update's save went, if it made one
    result,        \* per invocation: the dict update_data returned
    quote,         \* the output of the last price command
    vol_str,       \* the volume field handed to parse_volume
    vol_parsed,    \* what parse_volume returned for it
    columns,       \* the optional columns of the table on disk
    stored_columns,\* per invocation: the optional columns of what it loaded
    cli,           \* per invocation: how the update process ended
    other_cli      \* how the latest process that was not an update ended

volume_vars == <<vol_str, vol_parsed>>
cli_vars == <<cli, other_cli>>

vars == <<inst, file, pc, force_refresh, stored_df, before, response,
          save_outcome, result, quote, volume_vars, columns, stored_columns,
          cli_vars>>

\* ---------------------------------------------------------------- files
Absent == [kind |-> "absent", rows |-> <<>>]
Corrupt == [kind |-> "corrupt", rows |-> <<>>]
TableFile(t) == [kind |-> "table", rows |-> t]

None == [some |-> FALSE, rows |-> <<>>]
Some(t) == [some |-> TRUE, rows |-> t]

\* ---------------------------------------------------------------- pandas
DatesOf(t) == {t[i].date : i \in 1 .. Len(t)}

\* Series.max(): missing values are skipped; NaT when nothing is left.
SeriesMax(t) ==
    LET ds == DatesOf(t) \ {NaT}
    IN  IF ds = {} THEN NaT ELSE CHOOSE d \in ds : \A e \in ds : e <= d

\* a sorts strictly before b; NaT sorts last (na_position = "last").
SortsBefore(a, b) == a # NaT /\ (b = NaT \/ a < b)

\* sort_values("date"): the default sort is not stable, so rows of equal date
\* come out in any order.  The set of the orders it can produce.
RECURSIVE SortedOrders(_, _)
SortedOrders(t, idx) ==
    IF idx = {} THEN {<<>>}
    ELSE LET firsts == {i \in idx :
                          \A j \in idx : ~SortsBefore(t[j].date, t[i].date)}
         IN  UNION {{<<t[i]>> \o s : s \in SortedOrders(t, idx \ {i})} :
                      i \in firsts}

sort_values(t) == SortedOrders(t, 1 .. Len(t))

\* The rows of t at the positions in keep, in order.
RECURSIVE TakeRows(_, _, _)
TakeRows(t, keep, i) ==
    IF i > Len(t) THEN <<>>
    ELSE (IF i \in keep THEN <<t[i]>> ELSE <<>>) \o TakeRows(t, keep, i + 1)

\* drop_duplicates(subset=["date"], keep="last"); NaT equals NaT here.
drop_duplicates(t) ==
    TakeRows(t, {i \in 1 .. Len(t) :
                   \A j \in (i + 1) .. Len(t) : t[j].date # t[i].date}, 1)

\* NewRecords with >= for >: the row dated at the stored maximum is let through.
NewRecords_AdmitsBoundary(df_new, latest) ==
    SelectSeq(df_new, LAMBDA r : r.date # NaT /\ latest # NaT /\ r.date >= latest)

\* df_new[df_new["date"] > stored_latest_date]; a comparison with NaT is False.
NewRecords(df_new, latest) ==
    SelectSeq(df_new, LAMBDA r : r.date # NaT /\ latest # NaT /\ r.date > latest)


\* ---------------------------------------------------------------- storage
\* load_stored_data answering an unreadable file with an empty frame.
load_stored_data_EmptyOnError(f) ==
    IF f.kind = "absent" THEN None ELSE Some(f.rows)

\* load_stored_data: None when the file is missing or cannot be read.
load_stored_data(f) == IF f.kind = "table" THEN Some(f.rows) ELSE None

\* The load with the force flag ignored.
LoadUnlessForced_AlwaysLoads(force, f) == load_stored_data(f)

\* stored_df = load_stored_data(...) if not force_refresh else None
LoadUnlessForced(force, f) == IF force THEN None ELSE load_stored_data(f)

\* save_data: df.to_parquet writes straight onto the instrument's file.  It
\* succeeds, fails before the file is opened (the file is untouched), or fails
\* while writing (a truncated file, unreadable as Parquet, is left behind).
SaveOutcomes == {"ok", "fail_clean", "fail_partial"}

\* A save that adds the frame to the rows the file holds.
save_data_KeepsFileRows(f, df, o) ==
    CASE o = "ok" -> TableFile(IF f.kind = "table" THEN f.rows \o df ELSE df)
      [] o = "fail_clean" -> f
      [] o = "fail_partial" -> Corrupt

save_data(f, df, o) ==
    CASE o = "ok" -> TableFile(df)
      [] o = "fail_clean" -> f
      [] o = "fail_partial" -> Corrupt

\* ---------------------------------------------------------------- vendor
\* The rows a vendor can send: dated ones, one with no date field and one whose
\* date does not parse.
VendorRows ==
    [date : Dates, close : Closes]
        \cup {[date |-> NoField, close |-> 100], [date |-> BadDate, close |-> 100]}

RECURSIVE SeqsUpTo(_, _)
SeqsUpTo(S, n) ==
    IF n = 0 THEN {<<>>}
    ELSE LET shorter == SeqsUpTo(S, n - 1)
         IN  shorter \cup {Append(s, x) : s \in {t \in shorter : Len(t) = n - 1},
                                          x \in S}

FetchFailure == [kind |-> "fail", rows |-> <<>>]
\* A truthy JSON payload that is no list of rows (an object, a string).
NonList == [kind |-> "nonlist", rows |-> <<>>]
ListOf(rows) == [kind |-> "list", rows |-> rows]
Pending == [kind |-> "pending", rows |-> <<>>]

Responses ==
    {FetchFailure, NonList} \cup {ListOf(s) : s \in SeqsUpTo(VendorRows, MaxBatch)}

AllDated(rows) == \A i \in 1 .. Len(rows) : rows[i].date \in Nat \ {NaT}

\* fetch_from_api.  crypto converts each kline inside its try block, so a
\* payload it cannot convert gives None; psx and spx hand the payload on.
fetch_from_api(i, resp) ==
    IF resp.kind = "fail" THEN FetchFailure
    ELSE IF i = "crypto"
         THEN (IF resp.kind = "list" /\ AllDated(resp.rows) THEN resp
               ELSE FetchFailure)
         ELSE resp

\* "if not api_data": None and the empty list alike.
Falsy(api) == api.kind = "fail" \/ (api.kind = "list" /\ api.rows = <<>>)

Raise == [kind |-> "raise", rows |-> <<>>]
Frame(rows) == [kind |-> "frame", rows |-> rows]

AsNaT(rows) ==
    [i \in 1 .. Len(rows) |->
        [rows[i] EXCEPT !.date = IF rows[i].date = NoField THEN NaT
                                 ELSE rows[i].date]]

\* The conversion of api_data to df_new, before the sort.
\* crypto: every row carries a date string.
\* psx: DataFrame(api_data) raises on a non-list; df_new["date"] raises KeyError
\*      when no row has the "t" field; to_datetime raises on an unparsable date;
\*      a row lacking "t" among rows that have it gets NaT.
\* spx: parse_investing_data raises on a non-list (entry.get), and skips the
\*      entries with no date or an unparsable one.
BuildFrame(i, api) ==
    CASE i = "crypto" -> Frame(api.rows)
      [] i = "psx" ->
            IF api.kind # "list" THEN Raise
            ELSE IF \A k \in 1 .. Len(api.rows) : api.rows[k].date = NoField
                 THEN Raise
            ELSE IF \E k \in 1 .. Len(api.rows) : api.rows[k].date = BadDate
                 THEN Raise
            ELSE Frame(AsNaT(api.rows))
      [] i = "spx" ->
            IF api.kind # "list" THEN Raise
            ELSE Frame(SelectSeq(api.rows, LAMBDA r : r.date \in Nat \ {NaT}))

\* ---------------------------------------------------------------- results
NoResult ==
    [status |-> "none", message |-> "", records_count |-> NoKey,
     new_records_count |-> NoKey, latest_date |-> NoKey]

\* update_data left by an exception instead of a return.
Raised == [NoResult EXCEPT !.status = "raised"]

ErrorResult(msg) ==
    [status |-> "error", message |-> msg, records_count |-> 0,
     new_records_count |-> NoKey, latest_date |-> NoKey]

Outcome(f, r, o) == [file |-> f, result |-> r, saved |-> o]

\* The failed fetch leaving an empty table behind.
OnFetchFailure_WritesEmpty(f) ==
    Outcome(TableFile(<<>>), ErrorResult("failed_fetch"), "none")

\* The fetch gave nothing: return the error, write nothing.
OnFetchFailure(f) == Outcome(f, ErrorResult("failed_fetch"), "none")

\* No existing data, save all.
InitialSave(f, df_new, o) ==
    Outcome(save_data(f, df_new, o),
            [status |-> IF o = "ok" THEN "success" ELSE "error",
             message |-> IF o = "ok" THEN "initial_saved" ELSE "failed_save",
             records_count |-> Len(df_new),
             new_records_count |-> NoKey,
             latest_date |-> SeriesMax(df_new)],
            o)

NoNewData(f, stored) ==
    Outcome(f,
            [status |-> "success", message |-> "no_new",
             records_count |-> Len(stored), new_records_count |-> 0,
             latest_date |-> SeriesMax(stored)],
            "none")

MergeSave(f, df_combined, new_records, o) ==
    Outcome(save_data(f, df_combined, o),
            [status |-> IF o = "ok" THEN "success" ELSE "error",
             message |-> IF o = "ok" THEN "added" ELSE "failed_save",
             records_count |-> Len(df_combined),
             new_records_count |-> Len(new_records),
             latest_date |-> SeriesMax(df_combined)],
            o)

\* The merge of the stored rows with the sorted new frame.
Merge(f, stored, df_new) ==
    LET new_records == NewRecords(df_new, SeriesMax(stored))
    IN  IF Len(new_records) = 0 THEN {NoNewData(f, stored)}
        ELSE {MergeSave(f, df_combined, new_records, o) :
                df_combined \in sort_values(drop_duplicates(stored \o new_records)),
                o \in SaveOutcomes}

\* update_data from the fetch on: every way it can end, given the instance, what
\* the load returned, the vendor's answer and the file.
update_data(i, stored, resp, f) ==
    LET api == fetch_from_api(i, resp)
    IN  IF Falsy(api) THEN {OnFetchFailure(f)}
        ELSE LET fr == BuildFrame(i, api)
             IN  IF fr.kind = "raise" THEN {Outcome(f, Raised, "none")}
                 ELSE IF i = "spx" /\ fr.rows = <<>>
                      THEN {Outcome(f, ErrorResult("no_data_parsed"), "none")}
                 ELSE UNION {IF ~stored.some
                             THEN {InitialSave(f, df_new, o) : o \in SaveOutcomes}
                             ELSE Merge(f, stored.rows, df_new) :
                               df_new \in sort_values(fr.rows)}

\* ---------------------------------------------------------------- price
NotAsked == [asked |-> FALSE, found |-> FALSE, date |-> NaT, close |-> 0]
NoData == [asked |-> TRUE, found |-> FALSE, date |-> NaT, close |-> 0]

\* get_latest_price: df.iloc[-1]; a NaT date is reported as null.
get_latest_price(f) ==
    LET df == load_stored_data(f)
    IN  IF ~df.some \/ Len(df.rows) = 0 THEN NoData
        ELSE [asked |-> TRUE, found |-> TRUE,
              date |-> df.rows[Len(df.rows)].date,
              close |-> df.rows[Len(df.rows)].close]

\* ---------------------------------------------------------------- columns
\* The columns a table need not have.  A psx table has the columns some vendor
\* row carried; crypto and spx build every row with a volume.
OptionalFields == {"volume", "change_pct"}

FrameColumns(i, flds) == IF i = "psx" THEN flds ELSE {"volume"}

\* The optional columns get_latest_price reads from the last row.
RequiredColumns(i) == IF i = "psx" THEN {"volume", "change_pct"} ELSE {"volume"}

\* The columns on disk after a save that ended as o: a written table has the
\* columns of the frame written, a file cut short has none that can be read.
SavedColumns(cols, o, written) ==
    CASE o = "ok" -> written
      [] o = "fail_partial" -> {}
      [] OTHER -> cols

\* latest[name] raises KeyError for a column the table does not have.
PriceRaises(i, f, cols) ==
    LET df == load_stored_data(f)
    IN  df.some /\ Len(df.rows) > 0 /\ ~(RequiredColumns(i) \subseteq cols)

\* ---------------------------------------------------------------- command line
\* A process: its command, its exit code (NoKey while it runs), the number of
\* JSON documents it printed, and whether an exception ended it.
NoCli == [cmd |-> "none", exit |-> NoKey, json |-> 0, raised |-> FALSE]
Running(cmd) == [cmd |-> cmd, exit |-> NoKey, json |-> 0, raised |-> FALSE]
Exited(cmd, code, n) == [cmd |-> cmd, exit |-> code, json |-> n, raised |-> FALSE]
Uncaught(cmd) == [cmd |-> cmd, exit |-> 1, json |-> 0, raised |-> TRUE]

\* main's way through argv: the first argument, and whether a second is there.
Commands == {"none", "update", "price", "other"}

Dispatch(i, command, has_identifier) ==
    IF command \in {"update", "price"} /\ (i = "spx" \/ has_identifier)
    THEN command
    ELSE "usage"

\* ---------------------------------------------------------------- volume
\* A string is a sequence of characters.  A number read from a string is
\* [man, exp], standing for man * 10^exp, with man not divisible by 10 unless
\* it is 0 (exp is then 0).
Digits == {"0", "1", "2", "3", "4", "5"}

DigitValue(c) ==
    CASE c = "0" -> 0 [] c = "1" -> 1 [] c = "2" -> 2
      [] c = "3" -> 3 [] c = "4" -> 4 [] c = "5" -> 5

\* The volume field of an entry: absent (entry.get gives None) or a string.
NoVolume == [given |-> FALSE, str |-> <<>>]
VolumeOf(str) == [given |-> TRUE, str |-> str]

NotParsed == [kind |-> "pending", man |-> 0, exp |-> 0]
NoNumber == [kind |-> "none", man |-> 0, exp |-> 0]

RECURSIVE Number(_, _)
Number(man, exp) ==
    IF man = 0 THEN [kind |-> "value", man |-> 0, exp |-> 0]
    ELSE IF man % 10 = 0 THEN Number(man \div 10, exp + 1)
    ELSE [kind |-> "value", man |-> man, exp |-> exp]

\* s.replace(c, ""): every occurrence goes.
StrRemove(s, c) == SelectSeq(s, LAMBDA x : x # c)

\* s.upper()
StrUpper(s) ==
    [i \in 1 .. Len(s) |->
        CASE s[i] = "b" -> "B" [] s[i] = "m" -> "M" [] s[i] = "k" -> "K"
          [] s[i] = "x" -> "X" [] OTHER -> s[i]]

\* s.strip()
RECURSIVE StrStrip(_)
StrStrip(s) ==
    IF s = <<>> THEN s
    ELSE IF Head(s) = " " THEN StrStrip(Tail(s))
    ELSE IF s[Len(s)] = " " THEN StrStrip(SubSeq(s, 1, Len(s) - 1))
    ELSE s

EndsWith(s, c) == Len(s) > 0 /\ s[Len(s)] = c

RECURSIVE DigitsValue(_)
DigitsValue(s) ==
    IF s = <<>> THEN 0
    ELSE 10 * DigitsValue(SubSeq(s, 1, Len(s) - 1)) + DigitValue(s[Len(s)])

\* float(s): blanks around the number are skipped; the number is digits with
\* at most one point and at least one digit.  NoNumber stands for ValueError.
ToFloat(s) ==
    LET t == StrStrip(s)
        points == {i \in 1 .. Len(t) : t[i] = "."}
    IN  IF /\ \A i \in 1 .. Len(t) : t[i] \in Digits \cup {"."}
           /\ Cardinality(points) <= 1
           /\ \E i \in 1 .. Len(t) : t[i] \in Digits
        THEN Number(DigitsValue(StrRemove(t, ".")),
                    IF points = {} THEN 0
                    ELSE 0 - (Len(t) - (CHOOSE i \in points : TRUE)))
        ELSE NoNumber

\* float(...) * 10^k
Times(v, k) == IF v.kind = "value" THEN Number(v.man, v.exp + k) ELSE v

\* parse_volume: both exceptions float can raise are caught and give None.
parse_volume(v) ==
    IF ~v.given \/ v.str = <<>> THEN NoNumber
    ELSE LET cleaned == StrStrip(StrUpper(StrRemove(v.str, ",")))
         IN  IF EndsWith(cleaned, "B") THEN Times(ToFloat(StrRemove(cleaned, "B")), 9)
             ELSE IF EndsWith(cleaned, "M")
                  THEN Times(ToFloat(StrRemove(cleaned, "M")), 6)
             ELSE IF EndsWith(cleaned, "K")
                  THEN Times(ToFloat(StrRemove(cleaned, "K")), 3)
             ELSE ToFloat(cleaned)

\* The characters of the volume strings tried, and three strings of the
\* vendor's format.
VolumeChars == {"2", "5", ".", ",", "B", "M", "K", "b", " ", "x"}

VolumeInputs ==
    {NoVolume}
        \cup {VolumeOf(s) : s \in SeqsUpTo(VolumeChars, MaxVolLen)}
        \cup {VolumeOf(<<"1", "4", "0", "M">>), VolumeOf(<<"3", "K">>),
              VolumeOf(<<"1", "4", "0", "m">>), VolumeOf(<<"3", "k">>)}

\* ---------------------------------------------------------------- actions
Init ==
    /\ inst \in Instances
    /\ file = Absent
    /\ pc = [p \in Invocations |-> "idle"]
    /\ force_refresh = [p \in Invocations |-> FALSE]
    /\ stored_df = [p \in Invocations |-> None]
    /\ before = [p \in Invocations |-> Absent]
    /\ response = [p \in Invocations |-> Pending]
    /\ save_outcome = [p \in Invocations |-> "none"]
    /\ result = [p \in Invocations |-> NoResult]
    /\ quote = NotAsked
    /\ vol_str = NoVolume
    /\ vol_parsed = NotParsed
    /\ columns = {}
    /\ stored_columns = [p \in Invocations |-> {}]
    /\ cli = [p \in Invocations |-> NoCli]
    /\ other_cli = NoCli

\* update_data up to the load.  spx goes on to format the stored maximum as the
\* start date of the fetch, which raises on NaT.
BeginUpdate(p, force) ==
    /\ pc[p] \in {"idle", "done"}
    /\ LET stored == LoadUnlessForced(force, file)
           raises == inst = "spx" /\ stored.some /\ SeriesMax(stored.rows) = NaT
       IN  /\ stored_df' = [stored_df EXCEPT ![p] = stored]
           /\ stored_columns' =
                 [stored_columns EXCEPT ![p] = IF stored.some THEN columns ELSE {}]
           /\ pc' = [pc EXCEPT ![p] = IF raises THEN "done" ELSE "loaded"]
           /\ result' = [result EXCEPT ![p] = IF raises THEN Raised ELSE NoResult]
           /\ cli' = [cli EXCEPT ![p] = IF raises THEN Uncaught("update")
                                        ELSE Running("update")]
    /\ force_refresh' = [force_refresh EXCEPT ![p] = force]
    /\ before' = [before EXCEPT ![p] = file]
    /\ response' = [response EXCEPT ![p] = Pending]
    /\ save_outcome' = [save_outcome EXCEPT ![p] = "none"]
    /\ quote' = NotAsked
    /\ other_cli' = NoCli
    /\ UNCHANGED <<inst, file, volume_vars, columns>>

\* update_data from the fetch to its return, and main's print of the result.
\* flds are the optional fields the vendor's rows carry.
CompleteCols(p, resp, flds) ==
    /\ pc[p] = "loaded"
    /\ \E out \in update_data(inst, stored_df[p], resp, file) :
          /\ file' = out.file
          /\ result' = [result EXCEPT ![p] = out.result]
          /\ save_outcome' = [save_outcome EXCEPT ![p] = out.saved]
          /\ columns' = SavedColumns(columns, out.saved,
                                     stored_columns[p] \cup FrameColumns(inst, flds))
          /\ cli' = [cli EXCEPT ![p] = IF out.result.status = "raised"
                                        THEN Uncaught("update")
                                        ELSE Exited("update", 0, 1)]
    /\ response' = [response EXCEPT ![p] = resp]
    /\ pc' = [pc EXCEPT ![p] = "done"]
    /\ quote' = NotAsked
    /\ other_cli' = NoCli
    /\ UNCHANGED <<inst, force_refresh, stored_df, before, volume_vars,
                   stored_columns>>

\* The vendor's rows carry every optional field.
CompleteWith(p, resp) == CompleteCols(p, resp, OptionalFields)

CompleteUpdate(p) ==
    \E resp \in Responses : CompleteWith(p, resp)

\* The price command, run while no update is under way.  response and
\* save_outcome describe the latest update only until the next command runs.
LatestPrice ==
    /\ \A p \in Invocations : pc[p] # "loaded"
    /\ ~quote.asked
    /\ LET raises == PriceRaises(inst, file, columns)
           price_data == get_latest_price(file)
       IN  /\ quote' = IF raises THEN NotAsked ELSE price_data
           /\ other_cli' = IF raises THEN Uncaught("price")
                           ELSE IF price_data.found THEN Exited("price", 0, 1)
                           ELSE Exited("price", 1, 1)
    /\ response' = [p \in Invocations |-> Pending]
    /\ save_outcome' = [p \in Invocations |-> "none"]
    /\ UNCHANGED <<inst, file, pc, force_refresh, stored_df, before, result,
                   volume_vars, columns, stored_columns, cli>>

\* One invocation at a time.
Next ==
    \/ \E force \in BOOLEAN : BeginUpdate(1, force)
    \/ CompleteUpdate(1)
    \/ LatestPrice

Spec == Init /\ [][Next]_vars


\* ---------------------------------------------------------------- the merge scenario
\* A stored table with one row for each of the dates 1..StoredLast, and a batch
\* with one row for each of IncomingFirst..IncomingLast, oldest or newest first.
RowsOver(lo, hi) ==
    {[i \in 1 .. (hi - lo + 1) |-> [date |-> lo + i - 1, close |-> c[i]]] :
        c \in [1 .. (hi - lo + 1) -> Closes]}

Reversed(t) == [i \in 1 .. Len(t) |-> t[Len(t) + 1 - i]]

StoredTables == RowsOver(1, StoredLast)

IncomingBatches ==
    LET up == RowsOver(IncomingFirst, IncomingLast)
    IN  up \cup {Reversed(t) : t \in up}

InitMerge ==
    /\ inst \in Instances
    /\ file \in {TableFile(t) : t \in StoredTables}
    /\ pc = [p \in Invocations |-> "idle"]
    /\ force_refresh = [p \in Invocations |-> FALSE]
    /\ stored_df = [p \in Invocations |-> None]
    /\ before = [p \in Invocations |-> Absent]
    /\ response = [p \in Invocations |-> Pending]
    /\ save_outcome = [p \in Invocations |-> "none"]
    /\ result = [p \in Invocations |-> NoResult]
    /\ quote = NotAsked
    /\ vol_str = NoVolume
    /\ vol_parsed = NotParsed
    /\ columns = FrameColumns(inst, OptionalFields)
    /\ stored_columns = [p \in Invocations |-> {}]
    /\ cli = [p \in Invocations |-> NoCli]
    /\ other_cli = NoCli

NextMerge ==
    \/ BeginUpdate(1, FALSE)
    \/ \E b \in IncomingBatches : CompleteWith(1, ListOf(b))

SpecMerge == InitMerge /\ [][NextMerge]_vars

\* ---------------------------------------------------------------- the volume parser alone
InitVolume ==
    /\ inst = "spx"
    /\ file = Absent
    /\ pc = [p \in Invocations |-> "idle"]
    /\ force_refresh = [p \in Invocations |-> FALSE]
    /\ stored_df = [p \in Invocations |-> None]
    /\ before = [p \in Invocations |-> Absent]
    /\ response = [p \in Invocations |-> Pending]
    /\ save_outcome = [p \in Invocations |-> "none"]
    /\ result = [p \in Invocations |-> NoResult]
    /\ quote = NotAsked
    /\ vol_str \in VolumeInputs
    /\ vol_parsed = NotParsed
    /\ columns = {}
    /\ stored_columns = [p \in Invocations |-> {}]
    /\ cli = [p \in Invocations |-> NoCli]
    /\ other_cli = NoCli

\* parse_investing_data parses the volume field of an entry.
ParseVolume ==
    /\ vol_parsed.kind = "pending"
    /\ vol_parsed' = parse_volume(vol_str)
    /\ UNCHANGED <<inst, file, pc, force_refresh, stored_df, before, response,
                   save_outcome, result, quote, vol_str, columns,
                   stored_columns, cli_vars>>

NextVolume == ParseVolume

SpecVolume == InitVolume /\ [][NextVolume]_vars

\* ---------------------------------------------------------------- the command line
\* main leaves before it reaches update_data or get_latest_price: no command,
\* an unknown one, or no identifier where one is required.
UsageError ==
    /\ \A p \in Invocations : pc[p] # "loaded"
    /\ other_cli.cmd # "usage"
    /\ \E command \in Commands, has_identifier \in BOOLEAN :
          Dispatch(inst, command, has_identifier) = "usage"
    /\ other_cli' = Exited("usage", 1, 0)
    /\ quote' = NotAsked
    /\ UNCHANGED <<inst, file, pc, force_refresh, stored_df, before, response,
                   save_outcome, result, volume_vars, columns, stored_columns,
                   cli>>

\* One process at a time; the vendor's rows carry any of the optional fields.
NextCli ==
    \/ \E force \in BOOLEAN : BeginUpdate(1, force)
    \/ \E resp \in Responses, flds \in SUBSET OptionalFields :
          CompleteCols(1, resp, flds)
    \/ LatestPrice
    \/ UsageError

SpecCli == Init /\ [][NextCli]_vars

\* ---------------------------------------------------------------- two invocations
\* Two update processes for the same instrument, started in either order, each
\* free to load before or after the other has written.  The file is missing or
\* holds one row of date 1; the vendor sends rows of later dates.
ConcRows == [date : 2 .. MaxDate + 1, close : {100}]

ConcResponses ==
    {FetchFailure} \cup {ListOf(s) : s \in SeqsUpTo(ConcRows, MaxBatch)}

InitConc ==
    /\ inst \in Instances
    /\ file \in {Absent, TableFile(<<[date |-> 1, close |-> 100]>>)}
    /\ pc = [p \in Invocations |-> "idle"]
    /\ force_refresh = [p \in Invocations |-> FALSE]
    /\ stored_df = [p \in Invocations |-> None]
    /\ before = [p \in Invocations |-> Absent]
    /\ response = [p \in Invocations |-> Pending]
    /\ save_outcome = [p \in Invocations |-> "none"]
    /\ result = [p \in Invocations |-> NoResult]
    /\ quote = NotAsked
    /\ vol_str = NoVolume
    /\ vol_parsed = NotParsed
    /\ columns = IF file.kind = "table" THEN FrameColumns(inst, OptionalFields)
                 ELSE {}
    /\ stored_columns = [p \in Invocations |-> {}]
    /\ cli = [p \in Invocations |-> NoCli]
    /\ other_cli = NoCli

\* Nothing makes a process wait for the other: each step is taken whenever
\* its own process is ready for it.
NextConc ==
    \/ \E p \in Invocations : pc[p] = "idle" /\ BeginUpdate(p, FALSE)
    \/ \E p \in Invocations, resp \in ConcResponses : CompleteWith(p, resp)

SpecConc == InitConc /\ [][NextConc]_vars

\* ---------------------------------------------------------------- properties
Returned(p) == pc[p] = "done"

Count(t, r) == Cardinality({i \in 1 .. Len(t) : t[i] = r})

\* a and b hold the same rows, each as many times.
SameRows(a, b) ==
    /\ Len(a) = Len(b)
    /\ \A i \in 1 .. Len(a) : Count(a, a[i]) = Count(b, a[i])

\* No row comes after one that sort order puts behind it.
SortedByDate(t) ==
    \A i, j \in 1 .. Len(t) : i < j => ~SortsBefore(t[j].date, t[i].date)

\* The rows of the vendor's answer as the instance takes them in.
Incoming(p) == BuildFrame(inst, fetch_from_api(inst, response[p])).rows

\* The close stored in t for date d.
CloseAt(t, d) == t[CHOOSE i \in 1 .. Len(t) : t[i].date = d].close

\* C1: after any sequence of updates the stored rows are strictly ascending by
\* date and no two rows share a date.
C1_StrictlySortedUnique ==
    file.kind = "table" =>
        \A i, j \in 1 .. Len(file.rows) :
            (i < j /\ file.rows[i].date # NaT /\ file.rows[j].date # NaT)
                => file.rows[i].date < file.rows[j].date

\* C2: a successful non-forced update against a stored table keeps every stored
\* row unchanged, and every row it adds is dated after the stored maximum.
C2_StoredRowsKept ==
    (/\ Returned(1)
     /\ ~force_refresh[1]
     /\ before[1].kind = "table"
     /\ result[1].status = "success")
        => /\ file.kind = "table"
           /\ \A i \in 1 .. Len(before[1].rows) :
                 Count(file.rows, before[1].rows[i]) >= 1
           /\ \A j \in 1 .. Len(file.rows) :
                 Count(before[1].rows, file.rows[j]) = 0
                     => file.rows[j].date > SeriesMax(before[1].rows)

\* The case of the merge scenario: a non-forced update of a table with one row
\* per date 1..StoredLast by a batch with one row per date
\* IncomingFirst..IncomingLast, saved.
MergeCase ==
    /\ Returned(1)
    /\ ~force_refresh[1]
    /\ before[1].kind = "table"
    /\ before[1].rows \in StoredTables
    /\ response[1].kind = "list"
    /\ response[1].rows \in IncomingBatches
    /\ save_outcome[1] = "ok"

MergedDates ==
    /\ file.kind = "table"
    /\ Len(file.rows) = IncomingLast
    /\ \A d \in 1 .. IncomingLast : file.rows[d].date = d
    /\ result[1].records_count = IncomingLast

\* C3 as stated: the merge gives the dates 1..IncomingLast, one row each, and
\* the first date present in both carries the incoming value.
C3_IncomingWinsOverlap ==
    MergeCase =>
        /\ MergedDates
        /\ CloseAt(file.rows, IncomingFirst) = CloseAt(response[1].rows, IncomingFirst)

\* C3 amended: the merge gives the dates 1..IncomingLast, one row each; every
\* date up to the stored maximum keeps its stored value, and every later date
\* carries the incoming one.
C3_StoredWinsOverlap ==
    MergeCase =>
        /\ MergedDates
        /\ \A d \in 1 .. StoredLast :
              CloseAt(file.rows, d) = CloseAt(before[1].rows, d)
        /\ \A d \in (StoredLast + 1) .. IncomingLast :
              CloseAt(file.rows, d) = CloseAt(response[1].rows, d)

C3_Witness ==
    /\ MergeCase
    /\ IncomingFirst <= StoredLast
    /\ CloseAt(before[1].rows, IncomingFirst)
           # CloseAt(response[1].rows, IncomingFirst)

\* C4: a forced update whose fetch and save succeed leaves exactly the incoming
\* batch, sorted by date, on disk, and never reads the stored table.
C4_ForceReplaces ==
    /\ (pc[1] # "idle" /\ force_refresh[1]) => ~stored_df[1].some
    /\ (Returned(1) /\ force_refresh[1] /\ save_outcome[1] = "ok")
          => /\ file.kind = "table"
             /\ SameRows(file.rows, Incoming(1))
             /\ SortedByDate(file.rows)
             /\ result[1].status = "success"

C4_Witness ==
    /\ Returned(1)
    /\ force_refresh[1]
    /\ save_outcome[1] = "ok"
    /\ before[1].kind = "table"
    /\ \E i \in 1 .. Len(before[1].rows) : Count(file.rows, before[1].rows[i]) = 0

\* The incoming batch is a list of dated rows, none dated after the stored
\* maximum.
NothingNewer(p) ==
    /\ response[p].kind = "list"
    /\ AllDated(response[p].rows)
    /\ \A i \in 1 .. Len(response[p].rows) :
          response[p].rows[i].date <= SeriesMax(before[p].rows)

\* C5: a non-forced update against a stored table whose batch has no row after
\* the stored maximum writes nothing and returns success, no new data, the
\* stored row count, zero new records and the stored maximum date.
C5_NoNewDataIsSuccess ==
    (/\ Returned(1)
     /\ ~force_refresh[1]
     /\ before[1].kind = "table"
     /\ NothingNewer(1))
        => /\ file = before[1]
           /\ result[1].status = "success"
           /\ result[1].message = "no_new"
           /\ result[1].records_count = Len(before[1].rows)
           /\ result[1].new_records_count = 0
           /\ result[1].latest_date = SeriesMax(before[1].rows)

\* C6: the price command finds nothing when there is no table, and otherwise
\* returns the row dated at the maximum date of the stored table.
C6_LatestIsMaxDate ==
    quote.asked =>
        IF file.kind = "table" /\ Len(file.rows) > 0
        THEN quote.found /\ quote.date = SeriesMax(file.rows)
        ELSE ~quote.found

\* C7: when the fetch fails, the update returns an error with records_count 0
\* and the file is what it was, forced or not.
C7_FetchFailureWritesNothing ==
    (Returned(1) /\ response[1].kind # "pending"
        /\ fetch_from_api(inst, response[1]).kind = "fail")
        => /\ result[1].status = "error"
           /\ result[1].records_count = 0
           /\ save_outcome[1] = "none"
           /\ file = before[1]

C7_Witness ==
    /\ Returned(1)
    /\ response[1] = FetchFailure
    /\ force_refresh[1]
    /\ before[1].kind = "table"
    /\ file = before[1]

\* C8: when a save fails, the update returns an error and the file is the one
\* stored before the update.
C8_FailedSaveLeavesFile ==
    (Returned(1) /\ save_outcome[1] \in {"fail_clean", "fail_partial"})
        => /\ result[1].status = "error"
           /\ file = before[1]

\* C9: over an unreadable file the load gives no data, a non-forced update
\* whose fetch and save succeed stores the incoming batch sorted by date and
\* returns the initial-data result, and the price command finds nothing.
C9_CorruptIsNoData ==
    /\ (pc[1] # "idle" /\ before[1] = Corrupt) => ~stored_df[1].some
    /\ (Returned(1) /\ ~force_refresh[1] /\ before[1] = Corrupt
            /\ save_outcome[1] = "ok")
          => /\ file.kind = "table"
             /\ SameRows(file.rows, Incoming(1))
             /\ SortedByDate(file.rows)
             /\ result[1] = [status |-> "success", message |-> "initial_saved",
                             records_count |-> Len(Incoming(1)),
                             new_records_count |-> NoKey,
                             latest_date |-> SeriesMax(Incoming(1))]
    /\ (quote.asked /\ file = Corrupt) => quote = NoData

C9_Witness ==
    /\ Returned(1)
    /\ ~force_refresh[1]
    /\ before[1] = Corrupt
    /\ save_outcome[1] = "ok"
    /\ Len(file.rows) = 2
    /\ result[1].status = "success"

\* C10: update always ends by returning a result whose status is success or
\* error.
C10_NeverRaises ==
    \A p \in Invocations :
        Returned(p) => result[p].status \in {"success", "error"}

\* No two rows of t share a date (two missing dates count as shared).
UniqueDates(t) == \A i, j \in 1 .. Len(t) : i < j => t[i].date # t[j].date

\* C13: after a successful merge new_records_count is the number of rows added
\* (the stored row count after the update minus the one before it) and
\* records_count is the stored row count after the update.
C13_CountsRowsAdded ==
    (/\ Returned(1)
     /\ ~force_refresh[1]
     /\ before[1].kind = "table"
     /\ UniqueDates(before[1].rows)
     /\ result[1].status = "success"
     /\ result[1].message = "added")
        => /\ file.kind = "table"
           /\ result[1].new_records_count = Len(file.rows) - Len(before[1].rows)
           /\ result[1].records_count = Len(file.rows)

\* C16: with one invocation at a time, when update has returned success the
\* table on disk has records_count rows and the price command run next returns
\* a quote dated at the result's latest_date.
C16_ResultMatchesDisk ==
    (Returned(1) /\ result[1].status = "success")
        => /\ file.kind = "table"
           /\ Len(file.rows) = result[1].records_count
           /\ quote.asked => (quote.found /\ quote.date = result[1].latest_date)


\* What a volume field stands for: commas, case and blanks around it aside, a
\* number, or a number followed by one of the suffixes B, M, K; nothing
\* otherwise.
VolumeSuffixes == {"B", "M", "K"}

SuffixPower(c) == CASE c = "B" -> 9 [] c = "M" -> 6 [] c = "K" -> 3

VolumeValue(v) ==
    IF ~v.given THEN NoNumber
    ELSE LET text == StrStrip(StrUpper(StrRemove(v.str, ",")))
         IN  IF text # <<>> /\ text[Len(text)] \in VolumeSuffixes
             THEN Times(ToFloat(SubSeq(text, 1, Len(text) - 1)),
                        SuffixPower(text[Len(text)]))
             ELSE ToFloat(text)

\* C15: parse_volume turns "2.5B" into 2,500,000,000, "140M" into 140,000,000
\* and "3K" into 3,000, in either case and with commas ignored, returns an
\* unsuffixed number as it is, and returns null for every missing value and
\* every string that is not a number with at most one suffix.
C15_ParsesVolume ==
    vol_parsed.kind # "pending"
        => /\ vol_parsed = VolumeValue(vol_str)
           /\ vol_str = VolumeOf(<<"2", ".", "5", "B">>) => vol_parsed = Number(25, 8)
           /\ vol_str = VolumeOf(<<"1", "4", "0", "M">>) => vol_parsed = Number(14, 7)
           /\ vol_str = VolumeOf(<<"3", "K">>) => vol_parsed = Number(3, 3)

\* C11: the price command run on a non-empty table that update wrote returns
\* the quote and does not raise, whatever optional fields the vendor's rows
\* carried.
C11_PriceOfWrittenTable ==
    (other_cli.cmd = "price" /\ file.kind = "table" /\ file.rows # <<>>)
        => ~other_cli.raised /\ quote.found

\* C14: a process exits non-zero only for a usage error or a price command that
\* found no data; an update that reached update_data prints exactly one JSON
\* document and exits 0, a failed one included.
C14_ExitCodes ==
    /\ \A p \in Invocations :
          pc[p] = "done" => cli[p] = Exited("update", 0, 1)
    /\ (other_cli.exit # NoKey /\ other_cli.exit # 0)
          => \/ other_cli.cmd = "usage"
             \/ other_cli = Exited("price", 1, 1) /\ quote = NoData

RowsOf(t) == {t[i] : i \in 1 .. Len(t)}

\* C12: no invocation waits for the other, and a successful save replaces the
\* whole file with what the writer made of its own load and its own fetch:
\* every row on disk afterwards is one the writer loaded or fetched, whatever
\* the other invocation wrote in between (last writer wins).
C12_LastWriterWins ==
    /\ [](\A p, q \in Invocations :
            (pc[p] = "idle" /\ pc[q] = "loaded") => ENABLED BeginUpdate(p, FALSE))
    /\ [][\A p \in Invocations :
             (pc[p] = "loaded" /\ pc'[p] = "done" /\ save_outcome'[p] = "ok")
                 => /\ file'.kind = "table"
                    /\ RowsOf(file'.rows)
                          \subseteq RowsOf(stored_df[p].rows) \cup RowsOf(response'[p].rows)
                    /\ Len(file'.rows) = result'[p].records_count]_vars

\* C12, the lost update: both invocations loaded the same stored table, both
\* returned success with rows added, and a date one of them added is not on
\* disk.
C12_Witness ==
    /\ Returned(1) /\ Returned(2)
    /\ before[1] = before[2] /\ before[1].kind = "table"
    /\ stored_df[1] = stored_df[2]
    /\ \A p \in Invocations :
          result[p].status = "success" /\ result[p].message = "added"
    /\ \E q \in Invocations : \E d \in DatesOf(Incoming(q)) :
          /\ d > SeriesMax(stored_df[q].rows)
          /\ d \notin DatesOf(file.rows)
====
